---- MODULE Spec2Model ----
(***************************************************************************)
(* Model of src/visuals/manim/frost_dkg_animation.py: the NodeBox entity   *)
(* (display state, edge_point geometry) and the run of                     *)
(* FrostDKGScene.construct, one action per self.play / self.wait           *)
(* statement.                                                              *)
(*                                                                         *)
(* Lengths are in hundredths of a scene unit (1.0 = 100, 0.1 = 10), so     *)
(* that every coordinate of the script is an integer.                      *)
(*                                                                         *)
(* self.play(...) is a blocking call.  It is modelled in two steps: the    *)
(* call begins (phase "running": the objects introduced by FadeIn, Create, *)
(* Write and GrowArrow are put on the scene) and the call completes (phase *)
(* "idle": the targets of the .animate transitions are committed to the    *)
(* entities and the objects of FadeOut are removed from the scene).        *)
(***************************************************************************)
EXTENDS Integers, Sequences, FiniteSets

VARIABLES
    pc,         \* statement of construct() the run is at ("L<line>" or "done")
    phase,      \* "idle" between statements, "running" inside a self.play
    it1,        \* items consumed of the tuple iterated at line 134
    it2,        \* items consumed of the tuple iterated at line 175
    active,     \* loop variable `active` (0 while unbound)
    others,     \* loop variable `others` (line 134) / `peers` (line 175)
    ret,        \* statement that follows the current call of brief()
    info,       \* local `info` of brief(): the annotation text object
    poly,       \* local `poly` (line 141)
    arrows,     \* local `arrows` (lines 145, 180): sequence of connectors
    labels,     \* local `labels` (lines 145, 181): sequence of inline labels
    ticks,      \* local `ticks` (line 189): sequence of confirmation marks
    downStart,  \* start points of arrow1..arrow3 (lines 230-253)
    scene,      \* objects on the scene
    node,       \* per entity: fill, opacity, stroke, text colour, position
    log,        \* history: the statements begun so far, with `active`
    gA,         \* geometry calls: centre of entity a (self)
    gB,         \* geometry calls: centre of entity b / target point
    gMargin,    \* geometry calls: margin argument
    gCall,      \* geometry calls: "none" or the helper that was called
    gOut,       \* geometry calls: value returned
    ent,        \* entity calls: a NodeBox (fill, opacity, stroke, text, pos)
    entUnit,    \* entity calls: the unit returned and not yet played
    entLog,     \* entity calls: history of the units played on `ent`
    turns,      \* the tuples of (active, others) the loops at lines 134 and 175
                \* iterate over: [s1 |-> ..., s2 |-> ...]
    hist,       \* history: the objects shown so far, those shown again, and
                \* those faded out while not on the scene
    upc,        \* update_coverage.py: the line it is at ("U<line>", "done",
                \* "error" after an uncaught exception, "none" when not run)
    nFiles,     \* update_coverage.py: items consumed of `files` (line 13)
    nTraces,    \* update_coverage.py: items consumed of `trace_lines` (line 24)
    file_data,  \* update_coverage.py: the "path" entry of `file_data`
    file_path,  \* update_coverage.py: `file_path`, a sequence of characters
    total_lines,    \* update_coverage.py: `total_lines`
    covered_lines,  \* update_coverage.py: `covered_lines`
    percentage, \* update_coverage.py: `percentage` (-1 while unbound)
    base        \* history: the two counters when `file_data` was taken

locals == <<it1, it2, active, others, ret, info, poly, arrows, labels, ticks, downStart>>
geom   == <<gA, gB, gMargin, gCall, gOut>>
unit   == <<ent, entUnit, entLog>>
\* what the run of construct() and the geometry calls leave alone
cov    == <<upc, nFiles, nTraces, file_data, file_path, total_lines, covered_lines,
           percentage, base>>
other  == <<unit, turns, cov>>
\* the run of construct() as a whole
run    == <<pc, phase, scene, node, log, locals, turns, hist>>
vars   == <<pc, phase, scene, node, log, locals, geom, other, hist>>

---------------------------------------------------------------------------
(* Constants of the source *)

\* lines 5-6: fill / border colours of the two display states
NODE_COLOR_INACTIVE == "GREY_A"
NODE_COLOR_ACTIVE == "GREEN_E"
WHITE == "WHITE"

\* line 23: RoundedRectangle(width=2.0, height=1.0)
RectWidth == 200
RectHeight == 100
\* line 25 / line 43: fill opacity 0.4 when inactive; line 35: 0.8 when active
OpacityInactive == 40
OpacityActive == 80
\* line 49: margin: float = 0.1
DefaultMargin == 10
\* line 206: top_y = 1.3
TopY == 130

Nodes == {1, 2, 3}     \* p1, p2, p3 (line 76)

\* An object that can be put on the scene: its kind, the entity it starts
\* from or belongs to (0: none), the entity it points at or sits at (0: none),
\* an index and its colour.
Mob(k, a, b, n, c) == [k |-> k, a |-> a, b |-> b, n |-> n, c |-> c]

Range(s) == {s[j] : j \in 1..Len(s)}

NodeMob(n) == Mob("node", n, 0, 0, "")
NodeMobs == {NodeMob(n) : n \in Nodes}

Max(x, y) == IF x >= y THEN x ELSE y
Min(x, y) == IF x <= y THEN x ELSE y

---------------------------------------------------------------------------
(* NodeBox *)

\* lines 18-30: a NodeBox as constructed, then moved to `pos` (lines 72-74).
\* Text(label) keeps manim's default colour, white.
NodeBoxInitActive(pos) ==
    [fill |-> NODE_COLOR_ACTIVE, opacity |-> OpacityActive,
     stroke |-> NODE_COLOR_ACTIVE, text |-> WHITE, pos |-> pos]
NodeBoxInit(pos) ==
    [fill |-> NODE_COLOR_INACTIVE, opacity |-> OpacityInactive,
     stroke |-> NODE_COLOR_INACTIVE, text |-> WHITE, pos |-> pos]

\* lines 33-39: the target of activate(): set_fill(ACTIVE, 0.8), then
\* set_color(ACTIVE) (fill and border colour), and the text set to white.
ActivateBrightens(nb) ==
    [nb EXCEPT !.fill = NODE_COLOR_ACTIVE, !.opacity = Min(100, nb.opacity + 40),
               !.stroke = NODE_COLOR_ACTIVE, !.text = WHITE]
activate(nb) ==
    [nb EXCEPT !.fill = NODE_COLOR_ACTIVE, !.opacity = OpacityActive,
               !.stroke = NODE_COLOR_ACTIVE, !.text = WHITE]

\* lines 41-47: the target of deactivate().
DeactivateNoop(nb) ==
    nb
deactivate(nb) ==
    [nb EXCEPT !.fill = NODE_COLOR_INACTIVE, !.opacity = OpacityInactive,
               !.stroke = NODE_COLOR_INACTIVE, !.text = WHITE]

\* The two display states of an entity.
IsActive(nb) ==
    /\ nb.fill = NODE_COLOR_ACTIVE
    /\ nb.opacity = OpacityActive
    /\ nb.stroke = NODE_COLOR_ACTIVE
IsInactive(nb) ==
    /\ nb.fill = NODE_COLOR_INACTIVE
    /\ nb.opacity = OpacityInactive
    /\ nb.stroke = NODE_COLOR_INACTIVE

\* line 57: max(self.rect.width, self.rect.height) / 2
BorderUsesMin ==
    Min(RectWidth, RectHeight) \div 2
Border ==
    Max(RectWidth, RectHeight) \div 2

\* np.linalg.norm on integer coordinates: the integer square root, exact
\* whenever the sum of squares is a perfect square (the geometry calls below
\* draw their arguments so that it is).
RECURSIVE SqrtIn(_, _, _)
SqrtIn(s, lo, hi) ==
    IF lo >= hi THEN lo
    ELSE LET mid == (lo + hi + 1) \div 2
         IN  IF mid * mid <= s THEN SqrtIn(s, mid, hi) ELSE SqrtIn(s, lo, mid - 1)
Sqrt(s) == SqrtIn(s, 0, s)
Norm(d) == Sqrt(d[1] * d[1] + d[2] * d[2])

\* lines 49-58: NodeBox.edge_point of an entity centred at `center`.
\* unit * (border + margin) is computed as direction * (border + margin) / norm,
\* multiplying before dividing so that the quotient stays an integer.
edge_point(center, target, margin) ==
    LET direction == <<target[1] - center[1], target[2] - center[2]>>
        direction_norm == Norm(direction)
    IN  IF direction_norm = 0
        THEN center
        ELSE <<center[1] + (direction[1] * (Border + margin)) \div direction_norm,
               center[2] + (direction[2] * (Border + margin)) \div direction_norm>>

\* lines 105-112: the start and end of the Arrow built by arrow_between for
\* entities centred at ca and cb; edge_point is called with its default
\* margin and the Arrow with buff=0.
ArrowBetweenEndOnBoundary(ca, cb) ==
    [start |-> edge_point(ca, cb, DefaultMargin),
     end   |-> edge_point(cb, ca, 0)]
ArrowBetweenSwapped(ca, cb) ==
    [start |-> edge_point(cb, ca, DefaultMargin),
     end   |-> edge_point(ca, cb, DefaultMargin)]
arrow_between(ca, cb) ==
    [start |-> edge_point(ca, cb, DefaultMargin),
     end   |-> edge_point(cb, ca, DefaultMargin)]

\* get_bottom() of a NodeBox: the middle of its lower edge (lines 231, 239, 247)
get_bottom(nb) == <<nb.pos[1], nb.pos[2] - RectHeight \div 2>>

---------------------------------------------------------------------------
(* Objects built by construct() and its helpers *)

\* lines 95, 156, 199: stage1_label, stage2_label, stage3_label
StageLabel(s) == Mob("title", 0, 0, s, "")

\* line 87: the Text built by the n-th call of brief()
InfoText(n) == Mob("info", 0, 0, n, "")

\* lines 105-112: the Arrow object arrow_between(a, b, color, width) returns
Arrow(a, b, color) == Mob("arrow", a, b, 0, color)

\* lines 114-123: broadcast_with_labels(from_node, others)
BroadcastFirstOnly(from_node, targets) ==
    [arrows |-> <<Arrow(from_node, targets[1], "BROADCAST_COLOR")>>,
     labels |-> <<Mob("g_c", from_node, targets[1], 1, "BROADCAST_COLOR")>>]
BroadcastLabelsFromZero(from_node, targets) ==
    [arrows |-> [idx \in 1..Len(targets) |->
                    Arrow(from_node, targets[idx], "BROADCAST_COLOR")],
     labels |-> [idx \in 1..Len(targets) |->
                    Mob("g_c", from_node, targets[idx], idx - 1, "BROADCAST_COLOR")]]
broadcast_with_labels(from_node, targets) ==
    [arrows |-> [idx \in 1..Len(targets) |->
                    Arrow(from_node, targets[idx], "BROADCAST_COLOR")],
     labels |-> [idx \in 1..Len(targets) |->
                    Mob("g_c", from_node, targets[idx], idx, "BROADCAST_COLOR")]]

\* lines 164-168: share_with_label(from_node, to_node)
share_with_label(from_node, to_node) ==
    [arrow |-> Arrow(from_node, to_node, "SHARE_COLOR"),
     lbl   |-> Mob("s_ij", from_node, to_node, 0, "SHARE_COLOR")]

\* lines 170-173: tick_at(target), built in the sub-step of from_node
tick_at(from_node, target) == Mob("tick", from_node, target, 0, "TICK_COLOR")

\* line 141: poly, placed above the active node
Poly(a) == Mob("poly", a, 0, 0, "WHITE")

\* lines 230-253, 266: down_arrows = arrow1, arrow2, arrow3, each from
\* p_i.get_bottom() to pub_group.get_top()
DownArrows == {Mob("down_arrow", n, 0, n, "STAGE3_ARROW_COLOR") : n \in Nodes}
\* lines 256-264, 267: share_labels = s0, s1, s2, next to arrow1..arrow3
ShareLabels == {Mob("s_n", n, 0, n - 1, "STAGE3_ARROW_COLOR") : n \in Nodes}
\* lines 214-221: pub_group; lines 223-227: secret_group
PubGroup == Mob("pub_group", 0, 0, 0, "")
SecretGroup == Mob("secret_group", 0, 0, 0, "")

\* lines 134 and 175: the tuples the two loops iterate over
Stage1Turns ==
    << [active |-> 1, others |-> <<2, 3>>],
       [active |-> 2, others |-> <<1, 3>>],
       [active |-> 3, others |-> <<1, 2>>] >>
Stage2Turns ==
    << [active |-> 1, others |-> <<2, 3>>],
       [active |-> 2, others |-> <<1, 3>>],
       [active |-> 3, others |-> <<1, 2>>] >>

\* lines 67-74: the nodes as created and moved to p1_pos, p2_pos, p3_pos
NodesInit ==
    [n \in Nodes |->
        NodeBoxInit(CASE n = 1 -> <<-300, 50>>
                      [] n = 2 -> <<300, 50>>
                      [] n = 3 -> <<0, -200>>)]

SetMin(S) == CHOOSE x \in S : \A y \in S : x <= y
SetMax(S) == CHOOSE x \in S : \A y \in S : x >= y

\* lines 81-82: nodes_group.animate.move_to(ORIGIN): every node is shifted by
\* minus the centre of the group's bounding box
MoveGroupToOrigin(nd) ==
    LET xs == {nd[n].pos[1] - RectWidth \div 2 : n \in Nodes}
              \cup {nd[n].pos[1] + RectWidth \div 2 : n \in Nodes}
        ys == {nd[n].pos[2] - RectHeight \div 2 : n \in Nodes}
              \cup {nd[n].pos[2] + RectHeight \div 2 : n \in Nodes}
        cx == (SetMin(xs) + SetMax(xs)) \div 2
        cy == (SetMin(ys) + SetMax(ys)) \div 2
    IN  [n \in Nodes |->
            [nd[n] EXCEPT !.pos = <<nd[n].pos[1] - cx, nd[n].pos[2] - cy>>]]

\* lines 207-211: the three move_to targets of the summary layout
SummaryPos(n) ==
    CASE n = 1 -> <<-400, TopY>>
      [] n = 2 -> <<400, TopY>>
      [] n = 3 -> <<0, TopY>>
MoveToSummarySkipsP3(nd) ==
    [n \in Nodes |-> IF n = 3 THEN nd[n] ELSE [nd[n] EXCEPT !.pos = SummaryPos(n)]]
MoveToSummary(nd) ==
    [n \in Nodes |-> [nd[n] EXCEPT !.pos = SummaryPos(n)]]

\* lines 136-138 and 176-178: the targets of
\* play(active.activate(), *[n.deactivate() for n in nodes if n != active])
HighlightKeepsOthers(nd, act) ==
    [n \in Nodes |-> IF n = act THEN activate(nd[n]) ELSE nd[n]]
Highlight(nd, act) ==
    [n \in Nodes |-> IF n = act THEN activate(nd[n]) ELSE deactivate(nd[n])]

---------------------------------------------------------------------------
(* The run of FrostDKGScene.construct *)

\* No geometry helper has been called.
GeomIdle ==
    /\ gA = <<0, 0>>
    /\ gB = <<0, 0>>
    /\ gMargin = 0
    /\ gCall = "none"
    /\ gOut = <<>>

\* No unit waits to be played.
NoUnit == [op |-> "none", target |-> NodeBoxInit(<<0, 0>>)]

\* No entity is exercised on its own.
UnitIdle ==
    /\ ent = NodeBoxInit(<<0, 0>>)
    /\ entUnit = NoUnit
    /\ entLog = <<>>

\* update_coverage.py is not run.
CovIdle ==
    /\ upc = "none"
    /\ nFiles = 0
    /\ nTraces = 0
    /\ file_data = <<>>
    /\ file_path = <<>>
    /\ total_lines = 0
    /\ covered_lines = 0
    /\ percentage = -1
    /\ base = [total |-> 0, covered |-> 0]

\* Nothing has been shown or faded out.
NoHist == [shown |-> {}, reshown |-> {}, absent |-> {}]

\* lines 64-76: construct() up to its first self.play, all but the script
RunStart ==
    /\ pc = "L79"
    /\ phase = "idle"
    /\ it1 = 0
    /\ it2 = 0
    /\ active = 0
    /\ others = <<>>
    /\ ret = "none"
    /\ info = InfoText(0)
    /\ poly = Poly(0)
    /\ arrows = <<>>
    /\ labels = <<>>
    /\ ticks = <<>>
    /\ downStart = [n \in Nodes |-> <<0, 0>>]
    /\ scene = {}
    /\ node = NodesInit
    /\ log = <<>>
    /\ hist = NoHist

\* lines 134 and 175: the script written in construct()
SourceScript == [s1 |-> Stage1Turns, s2 |-> Stage2Turns]

ScriptStart == RunStart /\ turns = SourceScript

Init ==
    /\ ScriptStart
    /\ GeomIdle
    /\ UnitIdle
    /\ CovIdle

\* self.play(...) is entered at statement `label`: the objects of its
\* introducing animations are put on the scene.
Begin(label, introduced) ==
    /\ pc = label
    /\ phase = "idle"
    /\ phase' = "running"
    /\ scene' = scene \cup introduced
    /\ log' = Append(log, [op |-> label, who |-> active])
    /\ hist' = [hist EXCEPT !.shown = @ \cup introduced,
                            !.reshown = @ \cup (introduced \cap hist.shown)]
    /\ UNCHANGED <<pc, node, geom, other>>

\* self.play(...) at statement `label` returns: the transitions are committed
\* (the entities become `nd`), the objects faded out leave the scene, and the
\* run goes on with statement `next`.
End(label, next, removed, nd) ==
    /\ pc = label
    /\ phase = "running"
    /\ phase' = "idle"
    /\ pc' = next
    /\ scene' = scene \ removed
    /\ node' = nd
    /\ hist' = [hist EXCEPT !.absent = @ \cup (removed \ scene)]
    /\ UNCHANGED <<log, locals, geom, other>>

\* self.wait(...) at statement `label`
Wait(label, next) ==
    /\ pc = label
    /\ phase = "idle"
    /\ pc' = next
    /\ log' = Append(log, [op |-> label, who |-> active])
    /\ UNCHANGED <<phase, scene, node, locals, geom, other, hist>>

\* a call brief(txt) at statement `label`, the n-th of the script; line 87-88
\* build the text, line 89 is the first statement of the body
CallBrief(label, next, n) ==
    /\ pc = label
    /\ phase = "idle"
    /\ pc' = "L89"
    /\ ret' = next
    /\ info' = InfoText(n)
    /\ log' = Append(log, [op |-> label, who |-> active])
    /\ UNCHANGED <<phase, scene, node, geom, other, hist, it1, it2, active, others, poly,
                   arrows, labels, ticks, downStart>>

\* line 79: self.play(*[FadeIn(node, shift=DOWN, scale=0.8) for node in nodes])
L79 ==
    \/ Begin("L79", NodeMobs) /\ UNCHANGED locals
    \/ End("L79", "L82", {}, node)

\* line 82: self.play(nodes_group.animate.move_to(ORIGIN))
L82 ==
    \/ Begin("L82", {}) /\ UNCHANGED locals
    \/ End("L82", "L83", {}, MoveGroupToOrigin(node))

\* line 83: self.wait(0.5)
L83 == Wait("L83", "L98")

\* lines 86-91: the body of brief()
L89 ==
    \/ Begin("L89", {info}) /\ UNCHANGED locals
    \/ End("L89", "L90", {}, node)
L90 == Wait("L90", "L91")
BriefKeepsInfo ==
    \/ Begin("L91", {}) /\ UNCHANGED locals
    \/ End("L91", ret, {}, node)
L91 ==
    \/ Begin("L91", {}) /\ UNCHANGED locals
    \/ End("L91", ret, {info}, node)

\* line 98: self.play(FadeIn(stage1_label, shift=DOWN))
L98 ==
    \/ Begin("L98", {StageLabel(1)}) /\ UNCHANGED locals
    \/ End("L98", "L99", {}, node)
L99 == Wait("L99", "L102")
\* line 102: brief("Each node chooses a secret curve & ...")
L102 == CallBrief("L102", "L134", 1)

\* line 134: for active, others in (...): the next item, or the end of the loop
L134 ==
    /\ pc = "L134"
    /\ phase = "idle"
    /\ IF it1 < Len(turns.s1)
       THEN /\ it1' = it1 + 1
            /\ active' = turns.s1[it1 + 1].active
            /\ others' = turns.s1[it1 + 1].others
            /\ pc' = "L136"
       ELSE /\ pc' = "L151"
            /\ UNCHANGED <<it1, active, others>>
    /\ UNCHANGED <<phase, scene, node, log, geom, other, hist, it2, ret, info, poly, arrows,
                   labels, ticks, downStart>>

\* lines 136-138: highlight active node
L136 ==
    \/ Begin("L136", {}) /\ UNCHANGED locals
    \/ End("L136", "L143", {}, Highlight(node, active))

\* lines 141-143: poly = Tex(...); self.play(FadeIn(poly))
L143 ==
    \/ /\ Begin("L143", {Poly(active)})
       /\ poly' = Poly(active)
       /\ UNCHANGED <<it1, it2, active, others, ret, info, arrows, labels, ticks,
                      downStart>>
    \/ End("L143", "L146", {}, node)

\* lines 145-146: arrows, labels = broadcast_with_labels(active, others);
\* self.play(Create(arrows, run_time=0.8))
L146 ==
    \/ /\ Begin("L146", Range(broadcast_with_labels(active, others).arrows))
       /\ arrows' = broadcast_with_labels(active, others).arrows
       /\ labels' = broadcast_with_labels(active, others).labels
       /\ UNCHANGED <<it1, it2, active, others, ret, info, poly, ticks, downStart>>
    \/ End("L146", "L147", {}, node)

\* line 147: self.play(FadeIn(labels))
L147SkipsLabels ==
    \/ Begin("L147", {}) /\ UNCHANGED locals
    \/ End("L147", "L148", {}, node)
L147 ==
    \/ Begin("L147", Range(labels)) /\ UNCHANGED locals
    \/ End("L147", "L148", {}, node)
L148 == Wait("L148", "L149")

\* line 149: self.play(FadeOut(arrows), FadeOut(labels), FadeOut(poly))
L149 ==
    \/ Begin("L149", {}) /\ UNCHANGED locals
    \/ End("L149", "L134", Range(arrows) \cup Range(labels) \cup {poly}, node)

L151 == Wait("L151", "L152")
\* line 152: self.play(FadeOut(stage1_label))
L152KeepsTitle ==
    \/ Begin("L152", {}) /\ UNCHANGED locals
    \/ End("L152", "L159", {}, node)
L152 ==
    \/ Begin("L152", {}) /\ UNCHANGED locals
    \/ End("L152", "L159", {StageLabel(1)}, node)

\* line 159: self.play(FadeIn(stage2_label, shift=DOWN))
L159 ==
    \/ Begin("L159", {StageLabel(2)}) /\ UNCHANGED locals
    \/ End("L159", "L160", {}, node)
L160 == Wait("L160", "L162")
\* line 162: brief("Nodes exchange secret shares and verify them")
L162NoBrief == Wait("L162", "L175")
L162 == CallBrief("L162", "L175", 2)

\* line 175: for active, peers in (...)
L175 ==
    /\ pc = "L175"
    /\ phase = "idle"
    /\ IF it2 < Len(turns.s2)
       THEN /\ it2' = it2 + 1
            /\ active' = turns.s2[it2 + 1].active
            /\ others' = turns.s2[it2 + 1].others
            /\ pc' = "L176"
       ELSE /\ pc' = "L194"
            /\ UNCHANGED <<it2, active, others>>
    /\ UNCHANGED <<phase, scene, node, log, geom, other, hist, it1, ret, info, poly, arrows,
                   labels, ticks, downStart>>

\* lines 176-178: highlight active node
L176 ==
    \/ Begin("L176", {}) /\ UNCHANGED locals
    \/ End("L176", "L187", {}, Highlight(node, active))

\* lines 180-185: one share_with_label(active, peer) per peer, in order;
\* line 187: self.play(GrowArrow(arrows[0]), GrowArrow(arrows[1]), run_time=1.0)
L187 ==
    \/ LET made == [k \in 1..Len(others) |-> share_with_label(active, others[k])]
           arr == [k \in 1..Len(others) |-> made[k].arrow]
       IN  /\ Begin("L187", {arr[1], arr[2]})
           /\ arrows' = arr
           /\ labels' = [k \in 1..Len(others) |-> made[k].lbl]
           /\ UNCHANGED <<it1, it2, active, others, ret, info, poly, ticks,
                          downStart>>
    \/ End("L187", "L188", {}, node)

\* line 188: self.play(FadeIn(labels))
L188 ==
    \/ Begin("L188", Range(labels)) /\ UNCHANGED locals
    \/ End("L188", "L190", {}, node)

\* lines 189-190: ticks = VGroup(*[tick_at(peer) for peer in peers]);
\* self.play(FadeIn(ticks, scale=0.3))
L190 ==
    \/ LET made == [k \in 1..Len(others) |-> tick_at(active, others[k])]
       IN  /\ Begin("L190", Range(made))
           /\ ticks' = made
           /\ UNCHANGED <<it1, it2, active, others, ret, info, poly, arrows,
                          labels, downStart>>
    \/ End("L190", "L191", {}, node)
L191 == Wait("L191", "L192")

\* line 192: self.play(FadeOut(arrows), FadeOut(labels), FadeOut(ticks))
L192KeepsTicks ==
    \/ Begin("L192", {}) /\ UNCHANGED locals
    \/ End("L192", "L175", Range(arrows) \cup Range(labels), node)
L192 ==
    \/ Begin("L192", {}) /\ UNCHANGED locals
    \/ End("L192", "L175", Range(arrows) \cup Range(labels) \cup Range(ticks), node)

L194 == Wait("L194", "L195")
\* line 195: self.play(FadeOut(stage2_label))
L195 ==
    \/ Begin("L195", {}) /\ UNCHANGED locals
    \/ End("L195", "L201", {StageLabel(2)}, node)

\* line 201: self.play(FadeIn(stage3_label, shift=DOWN))
L201 ==
    \/ Begin("L201", {StageLabel(3)}) /\ UNCHANGED locals
    \/ End("L201", "L202", {}, node)
L202 == Wait("L202", "L204")
\* line 204: brief("Commitments -> group public key & ...")
L204 == CallBrief("L204", "L207", 3)

\* lines 207-211: self.play(p1.animate.move_to(...), p2..., p3...)
L207 ==
    \/ Begin("L207", {}) /\ UNCHANGED locals
    \/ End("L207", "L269", {}, MoveToSummary(node))

\* lines 230-253: arrow1..arrow3 start at p_i.get_bottom();
\* line 269: self.play(Create(down_arrows, lag_ratio=0.2))
L269 ==
    \/ /\ Begin("L269", DownArrows)
       /\ downStart' = [n \in Nodes |-> get_bottom(node[n])]
       /\ UNCHANGED <<it1, it2, active, others, ret, info, poly, arrows, labels,
                      ticks>>
    \/ End("L269", "L270", {}, node)
\* line 270: self.play(FadeIn(share_labels))
L270 ==
    \/ Begin("L270", ShareLabels) /\ UNCHANGED locals
    \/ End("L270", "L271", {}, node)
\* line 271: self.play(FadeIn(pub_group))
L271 ==
    \/ Begin("L271", {PubGroup}) /\ UNCHANGED locals
    \/ End("L271", "L272", {}, node)
\* line 272: self.play(FadeIn(secret_group))
L272 ==
    \/ Begin("L272", {SecretGroup}) /\ UNCHANGED locals
    \/ End("L272", "L273", {}, node)
L273 == Wait("L273", "L274")
\* line 274: brief("Threshold signing possible ..."); construct() then returns
L274 == CallBrief("L274", "done", 4)

Next ==
    \/ L79 \/ L82 \/ L83
    \/ L89 \/ L90 \/ L91
    \/ L98 \/ L99 \/ L102
    \/ L134 \/ L136 \/ L143 \/ L146 \/ L147 \/ L148 \/ L149
    \/ L151 \/ L152
    \/ L159 \/ L160 \/ L162
    \/ L175 \/ L176 \/ L187 \/ L188 \/ L190 \/ L191 \/ L192
    \/ L194 \/ L195
    \/ L201 \/ L202 \/ L204
    \/ L207 \/ L269 \/ L270 \/ L271 \/ L272 \/ L273 \/ L274

Spec == Init /\ [][Next]_vars

---------------------------------------------------------------------------
(* Calls of the geometry helpers on arbitrary entities *)

\* Directions reach MaxSteps scene units; margins reach MaxMarginSteps halves
\* of a scene unit on either side of zero.
MaxSteps == 2
MaxMarginSteps == 3

\* Centres of the entity the helper is called on: the origin and the
\* places of p1 and p3 after line 82.
Centers == {<<0, 0>>, <<-300, 125>>, <<0, -125>>}

\* Directions whose length is a whole number of scene units: the zero
\* direction, the axes and the 3-4-5 diagonals, in every orientation.
Directions ==
    {<<0, 0>>}
    \cup {<<sx * 100 * k, 0>> : sx \in {-1, 1}, k \in 1..MaxSteps}
    \cup {<<0, sy * 100 * k>> : sy \in {-1, 1}, k \in 1..MaxSteps}
    \cup UNION {{<<sx * 60 * k, sy * 80 * k>>, <<sx * 80 * k, sy * 60 * k>>} :
                    sx \in {-1, 1}, sy \in {-1, 1}, k \in 1..MaxSteps}

Margins == {50 * j : j \in (0 - MaxMarginSteps)..MaxMarginSteps} \cup {DefaultMargin}

GeomInit ==
    /\ ScriptStart
    /\ UnitIdle
    /\ CovIdle
    /\ gA \in Centers
    /\ \E d \in Directions : gB = <<gA[1] + d[1], gA[2] + d[2]>>
    /\ gMargin \in Margins
    /\ gCall = "none"
    /\ gOut = <<>>

\* e.edge_point(target, margin) on an entity centred at gA
CallEdgePoint ==
    /\ gCall = "none"
    /\ gCall' = "edge_point"
    /\ gOut' = edge_point(gA, gB, gMargin)
    /\ UNCHANGED <<pc, phase, scene, node, log, locals, gA, gB, gMargin, other, hist>>

\* arrow_between(a, b, color, width) on entities centred at gA and gB
CallArrowBetween ==
    /\ gCall = "none"
    /\ gCall' = "arrow_between"
    /\ gOut' = arrow_between(gA, gB)
    /\ UNCHANGED <<pc, phase, scene, node, log, locals, gA, gB, gMargin, other, hist>>

\* arrow_between(a, b, ...) and arrow_between(b, a, ...), the entities staying
\* where they are between the two calls
CallArrowBothWays ==
    /\ gCall = "none"
    /\ gCall' = "arrow_both_ways"
    /\ gOut' = [ab |-> arrow_between(gA, gB), ba |-> arrow_between(gB, gA)]
    /\ UNCHANGED <<pc, phase, scene, node, log, locals, gA, gB, gMargin, other, hist>>

GeomNext == CallEdgePoint \/ CallArrowBetween \/ CallArrowBothWays

GeomSpec == GeomInit /\ [][GeomNext]_vars

---------------------------------------------------------------------------
(* Calls of the NodeBox methods on one entity *)

\* At most MaxOps units are played on the entity.
MaxOps == 4

UnitInit ==
    /\ ScriptStart
    /\ GeomIdle
    /\ CovIdle
    /\ \E c \in Centers : ent = NodeBoxInit(c)
    /\ entUnit = NoUnit
    /\ entLog = <<>>

\* lines 33-39: e.activate() builds the AnimationGroup of the .animate
\* transitions and returns it; the entity itself is not touched.
CallActivateMutates ==
    /\ entUnit.op = "none"
    /\ Len(entLog) < MaxOps
    /\ entUnit' = [op |-> "activate", target |-> activate(ent)]
    /\ ent' = activate(ent)
    /\ UNCHANGED <<run, cov, geom, entLog>>
CallActivate ==
    /\ entUnit.op = "none"
    /\ Len(entLog) < MaxOps
    /\ entUnit' = [op |-> "activate", target |-> activate(ent)]
    /\ UNCHANGED <<run, cov, geom, ent, entLog>>

\* lines 41-47: e.deactivate(), likewise
CallDeactivate ==
    /\ entUnit.op = "none"
    /\ Len(entLog) < MaxOps
    /\ entUnit' = [op |-> "deactivate", target |-> deactivate(ent)]
    /\ UNCHANGED <<run, cov, geom, ent, entLog>>

\* lines 49-58: e.edge_point(target) with the default margin; it reads the
\* entity's centre and size.
CallEdgePointOn ==
    /\ gCall = "none"
    /\ \E d \in Directions :
          /\ gA' = ent.pos
          /\ gB' = <<ent.pos[1] + d[1], ent.pos[2] + d[2]>>
          /\ gMargin' = DefaultMargin
          /\ gOut' = edge_point(ent.pos, <<ent.pos[1] + d[1], ent.pos[2] + d[2]>>,
                                DefaultMargin)
    /\ gCall' = "edge_point"
    /\ UNCHANGED <<run, cov, unit>>

\* self.play(unit): the transition is committed to the entity.
PlayUnit ==
    /\ entUnit.op # "none"
    /\ ent' = entUnit.target
    /\ entLog' = Append(entLog, [op |-> entUnit.op, before |-> ent,
                                 after |-> entUnit.target])
    /\ entUnit' = NoUnit
    /\ UNCHANGED <<run, cov, geom>>

UnitNext == CallActivate \/ CallDeactivate \/ CallEdgePointOn \/ PlayUnit

UnitSpec == UnitInit /\ [][UnitNext]_vars

---------------------------------------------------------------------------
(* Calls of broadcast_with_labels on arbitrary senders and peer lists *)

\* Peer lists have at most MaxPeers entries.
MaxPeers == 3

PeerLists == UNION {[1..k -> Nodes] : k \in 0..MaxPeers}

BundleInit ==
    /\ pc = "L114"
    /\ phase = "idle"
    /\ it1 = 0
    /\ it2 = 0
    /\ active \in Nodes
    /\ others \in PeerLists
    /\ ret = "none"
    /\ info = InfoText(0)
    /\ poly = Poly(0)
    /\ arrows = <<>>
    /\ labels = <<>>
    /\ ticks = <<>>
    /\ downStart = [n \in Nodes |-> <<0, 0>>]
    /\ scene = {}
    /\ node = NodesInit
    /\ log = <<>>
    /\ hist = NoHist
    /\ turns = SourceScript
    /\ GeomIdle
    /\ UnitIdle
    /\ CovIdle

\* lines 114-123: broadcast_with_labels(active, others) runs from its entry
\* to its return; the caller binds the two groups to arrows and labels.
CallBroadcastWithLabels ==
    /\ pc = "L114"
    /\ pc' = "L123"
    /\ arrows' = broadcast_with_labels(active, others).arrows
    /\ labels' = broadcast_with_labels(active, others).labels
    /\ UNCHANGED <<phase, scene, node, log, geom, other, hist, it1, it2, active, others,
                   ret, info, poly, ticks, downStart>>

BundleNext == CallBroadcastWithLabels

BundleSpec == BundleInit /\ [][BundleNext]_vars

---------------------------------------------------------------------------
(* Runs of construct() on a script that names a NodeBox outside `nodes` *)

\* A NodeBox that was created but is not one of nodes = [p1, p2, p3]. It has
\* no entry in `node`: construct() never reads its fields, and the objects
\* built for it (connectors, labels, marks) refer to it by number.
UnknownBox == Cardinality(Nodes) + 1

\* The script of lines 134 and 175 with one reference to a participant, the
\* active one or a peer of one sub-step, replaced by the unknown NodeBox.
ScriptVariants ==
    {[SourceScript EXCEPT !.s1[i].active = UnknownBox] : i \in 1..Len(Stage1Turns)}
    \cup {[SourceScript EXCEPT !.s1[i].others[k] = UnknownBox] :
             i \in 1..Len(Stage1Turns), k \in 1..2}
    \cup {[SourceScript EXCEPT !.s2[i].active = UnknownBox] : i \in 1..Len(Stage2Turns)}
    \cup {[SourceScript EXCEPT !.s2[i].others[k] = UnknownBox] :
             i \in 1..Len(Stage2Turns), k \in 1..2}

AnyScriptInit == RunStart /\ turns \in ScriptVariants /\ GeomIdle /\ UnitIdle /\ CovIdle

AnyScriptSpec == AnyScriptInit /\ [][Next]_vars

---------------------------------------------------------------------------
(* update_coverage.py: the totals of a tarpaulin report *)

\* A report has at most MaxFiles files, a file at most MaxTraces traces.
MaxFiles == 3
MaxTraces == 4

\* Strings are sequences of characters.
Sep == <<"/">>
DotCargo == <<".", "c", "a", "r", "g", "o">>
Tests == <<"t", "e", "s", "t", "s">>
Target == <<"t", "a", "r", "g", "e", "t">>
Debug == <<"d", "e", "b", "u", "g">>
Build == <<"b", "u", "i", "l", "d">>
BuildRs == Build \o <<".", "r", "s">>
Src == <<"s", "r", "c">>
ARs == <<"a", ".", "r", "s">>

\* Python: needle in s
In(needle, str) ==
    \E i \in 0..(Len(str) - Len(needle)) : SubSeq(str, i + 1, i + Len(needle)) = needle
\* Python: s.endswith(suffix), s.startswith(prefix)
endswith(str, suffix) ==
    /\ Len(suffix) <= Len(str)
    /\ SubSeq(str, Len(str) - Len(suffix) + 1, Len(str)) = suffix
startswith(str, prefix) ==
    /\ Len(prefix) <= Len(str)
    /\ SubSeq(str, 1, Len(prefix)) = prefix

\* line 14: os.path.join(a, *p) of posixpath: a component that starts with
\* "/" replaces what was joined so far; otherwise it is appended, after a
\* "/" unless what was joined so far is empty or ends with one.
RECURSIVE JoinFrom(_, _, _)
JoinFrom(path, comps, k) ==
    IF k > Len(comps)
    THEN path
    ELSE LET b == comps[k]
         IN  JoinFrom(IF startswith(b, Sep) THEN b
                      ELSE IF path = <<>> \/ endswith(path, Sep) THEN path \o b
                      ELSE path \o Sep \o b,
                      comps, k + 1)
path_join(comps) ==
    JoinFrom(comps[1], comps, 2)

\* lines 15-20: the condition of the `continue`
ExcludedForgetsTests(path) ==
    \/ In(Sep \o DotCargo \o Sep, path)
    \/ In(Target \o Sep \o Debug \o Sep \o Build, path)
    \/ endswith(path, Sep \o BuildRs)
excluded(path) ==
    \/ In(Sep \o DotCargo \o Sep, path)
    \/ In(Target \o Sep \o Debug \o Sep \o Build, path)
    \/ In(Sep \o Tests \o Sep, path)
    \/ endswith(path, Sep \o BuildRs)

\* The "path" entries of the files of a report (a list of components; <<>>
\* when the entry is missing or empty).
PathInputs ==
    { <<>>,
      <<Src, ARs>>,
      <<Sep, Src, DotCargo, ARs>>,
      <<DotCargo, ARs>>,
      <<Target, Debug, Build, ARs>>,
      <<<<"x">> \o Target, Debug, BuildRs>>,
      <<Target, Build, ARs>>,
      <<Src, Tests, ARs>>,
      <<Tests, ARs>>,
      <<Src, Tests>>,
      <<Src, Sep \o Tests, ARs>>,
      <<Src, BuildRs>>,
      <<BuildRs>>,
      <<Src, BuildRs, ARs>> }

\* The traces of a report: without "stats", with "stats" that have no "Line",
\* or with a "Line" count.
LineCounts == {-1, 0, 1, 2}
TraceInputs ==
    {[stats |-> FALSE, hasLine |-> FALSE, Line |-> 0],
     [stats |-> TRUE, hasLine |-> FALSE, Line |-> 0]}
    \cup {[stats |-> TRUE, hasLine |-> TRUE, Line |-> v] : v \in LineCounts}

\* line 32: round(x) of a float whose fraction is exact: to the nearest
\* integer, a tie to the even one. (covered / total) * 100 is computed in
\* floating point; for the totals of the model its ties are exact.
Round(num, den) ==
    LET q == num \div den
        r == num % den
    IN  IF 2 * r < den THEN q
        ELSE IF 2 * r > den THEN q + 1
        ELSE IF q % 2 = 0 THEN q ELSE q + 1

\* lines 9-11: the script has read the report and set its counters
CovStart ==
    /\ upc = "U13"
    /\ nFiles = 0
    /\ nTraces = 0
    /\ file_data = <<>>
    /\ file_path = <<>>
    /\ total_lines = 0
    /\ covered_lines = 0
    /\ percentage = -1
    /\ base = [total |-> 0, covered |-> 0]

CovInit == ScriptStart /\ GeomIdle /\ UnitIdle /\ CovStart

\* line 13: for file_data in files: the next file of the report, or the end
\* of the loop
U13 ==
    /\ upc = "U13"
    /\ \/ /\ nFiles < MaxFiles
          /\ \E p \in PathInputs : file_data' = p
          /\ nFiles' = nFiles + 1
          /\ base' = [total |-> total_lines, covered |-> covered_lines]
          /\ upc' = "U14"
          /\ UNCHANGED <<nTraces, file_path, total_lines, covered_lines, percentage>>
       \/ /\ upc' = "U30"
          /\ UNCHANGED <<nFiles, nTraces, file_data, file_path, total_lines,
                         covered_lines, percentage, base>>
    /\ UNCHANGED <<run, geom, unit>>

\* line 14: file_path = os.path.join(*file_data.get("path", [])); without a
\* component os.path.join() raises TypeError, which nothing catches
U14 ==
    /\ upc = "U14"
    /\ IF file_data = <<>>
       THEN upc' = "error" /\ UNCHANGED file_path
       ELSE upc' = "U15" /\ file_path' = path_join(file_data)
    /\ UNCHANGED <<nFiles, nTraces, file_data, total_lines, covered_lines, percentage,
                   base>>
    /\ UNCHANGED <<run, geom, unit>>

\* lines 15-23: an excluded file is skipped; of another the traces are taken
U15 ==
    /\ upc = "U15"
    /\ IF excluded(file_path)
       THEN upc' = "U13" /\ UNCHANGED nTraces
       ELSE upc' = "U24" /\ nTraces' = 0
    /\ UNCHANGED <<nFiles, file_data, file_path, total_lines, covered_lines,
                   percentage, base>>
    /\ UNCHANGED <<run, geom, unit>>

\* lines 25-28: the body of the loop over the traces
Count(trace) ==
    /\ total_lines' = IF trace.stats /\ trace.hasLine
                      THEN total_lines + 1 ELSE total_lines
    /\ covered_lines' = IF trace.stats /\ trace.hasLine /\ trace.Line > 0
                        THEN covered_lines + 1 ELSE covered_lines

\* line 24: for trace in trace_lines: the next trace of the file, with the
\* body of the loop, or the end of the loop
U24 ==
    /\ upc = "U24"
    /\ \/ /\ nTraces < MaxTraces
          /\ \E trace \in TraceInputs : Count(trace)
          /\ nTraces' = nTraces + 1
          /\ UNCHANGED upc
       \/ /\ upc' = "U13"
          /\ UNCHANGED <<nTraces, total_lines, covered_lines>>
    /\ UNCHANGED <<nFiles, file_data, file_path, percentage, base>>
    /\ UNCHANGED <<run, geom, unit>>

\* lines 30-32: percentage = 0, or the rounded share of the covered lines
U30 ==
    /\ upc = "U30"
    /\ percentage' = IF total_lines > 0
                     THEN Round(covered_lines * 100, total_lines)
                     ELSE 0
    /\ upc' = "done"
    /\ UNCHANGED <<nFiles, nTraces, file_data, file_path, total_lines, covered_lines,
                   base>>
    /\ UNCHANGED <<run, geom, unit>>

CovNext == U13 \/ U14 \/ U15 \/ U24 \/ U30

CovSpec == CovInit /\ [][CovNext]_vars

---------------------------------------------------------------------------
(* Properties of the run *)

\* The statements of a participant's sub-step that follow its highlight.
SubStep1Body == {"L143", "L146", "L147", "L148", "L149"}
SubStep2Body == {"L187", "L188", "L190", "L191", "L192"}
\* The places between two sub-steps and after the last one of a stage.
BetweenSubSteps == {"L134", "L151", "L152", "L175", "L194", "L195"}

Stage1Stmts == {"L98", "L99", "L102", "L134", "L136", "L151", "L152"} \cup SubStep1Body
Stage2Stmts == {"L159", "L160", "L162", "L175", "L176", "L194", "L195"} \cup SubStep2Body
Stage3Stmts == {"L201", "L202", "L204", "L207", "L269", "L270", "L271", "L272",
                "L273", "L274"}
BriefStmts == {"L89", "L90", "L91"}

\* The stage the run is in (0: before stage 1, or after the run).
StageOf ==
    IF pc \in BriefStmts
    THEN CASE ret = "L134" -> 1
           [] ret = "L175" -> 2
           [] ret \in {"L207", "done"} -> 3
           [] OTHER -> 0
    ELSE CASE pc \in Stage1Stmts -> 1
           [] pc \in Stage2Stmts -> 2
           [] pc \in Stage3Stmts -> 3
           [] OTHER -> 0

TitleFadeIn(s) == CASE s = 1 -> "L98" [] s = 2 -> "L159" [] s = 3 -> "L201"
BriefCall(s) == CASE s = 1 -> "L102" [] s = 2 -> "L162" [] s = 3 -> "L204"
FirstSubStepOp(s) == CASE s = 1 -> "L136" [] s = 2 -> "L176" [] s = 3 -> "L207"

Begun(label) == \E j \in 1..Len(log) : log[j].op = label

Stage1Transient(m) ==
    \/ m.k \in {"g_c", "poly"}
    \/ m.k = "arrow" /\ m.c = "BROADCAST_COLOR"
Stage2Transient(m) ==
    \/ m.k \in {"s_ij", "tick"}
    \/ m.k = "arrow" /\ m.c = "SHARE_COLOR"

\* C1: every connector, inline label and confirmation mark (and polynomial
\* label) of stages 1 and 2 is on the scene only inside the sub-step of the
\* participant it was shown for; so none is left when the next sub-step
\* begins, nor when the stage title is removed after the last sub-step.
C1_TransientsRetracted ==
    /\ \A m \in scene :
          /\ Stage1Transient(m) => pc \in SubStep1Body /\ m.a = active
          /\ Stage2Transient(m) => pc \in SubStep2Body /\ m.a = active
    /\ pc \in BetweenSubSteps =>
          \A m \in scene : ~Stage1Transient(m) /\ ~Stage2Transient(m)

\* C1 witness: the second sub-step of stage 2 is about to begin and the
\* connectors, labels and marks of the first one have been shown and removed.
C1_Witness ==
    /\ pc = "L175" /\ it2 = 1
    /\ Len(arrows) = 2 /\ Len(labels) = 2 /\ Len(ticks) = 2
    /\ Begun("L187") /\ Begun("L188") /\ Begun("L190")
    /\ (Range(arrows) \cup Range(labels) \cup Range(ticks)) \cap scene = {}

\* C2 as stated: between two consecutive sub-steps, and after the last
\* sub-step of a stage, no entity is Active.
C2_Original ==
    pc \in BetweenSubSteps => \A n \in Nodes : ~IsActive(node[n])

\* C2 as amended: the retraction leaves the spotlighted entity Active; between
\* two sub-steps and after the last one of a stage exactly the entity last
\* spotlighted is Active, the others are Inactive, and it is the highlight of
\* the next sub-step that deactivates it.
C2_DeactivatedByNextHighlight ==
    /\ (pc \in BetweenSubSteps /\ active # 0) =>
          \A n \in Nodes :
              IF n = active THEN IsActive(node[n]) ELSE IsInactive(node[n])
    /\ (pc \in SubStep1Body \cup SubStep2Body /\ active > 1) =>
          IsInactive(node[active - 1])
    /\ (pc \in {"L136", "L176"} /\ phase = "running" /\ active > 1) =>
          IsActive(node[active - 1])

\* C2 witness: the first sub-step of stage 1 has been retracted and P1 is
\* still Active.
C2_Witness ==
    /\ pc = "L134" /\ it1 = 1 /\ Begun("L149")
    /\ IsActive(node[1])

\* C3: once the highlight of a sub-step of stage 1 or 2 has completed, and
\* for the rest of that sub-step, the participant named as active is Active
\* and no other entity is.
C3_OneActiveInSubStep ==
    pc \in SubStep1Body \cup SubStep2Body =>
        /\ active \in Nodes
        /\ IsActive(node[active])
        /\ \A n \in Nodes \ {active} : ~IsActive(node[n])
        /\ Cardinality({n \in Nodes : IsActive(node[n])}) <= 1

\* C3 witness: inside P2's sub-step of stage 1, after P1 has been Active.
C3_Witness ==
    /\ pc = "L147" /\ active = 2
    /\ IsActive(node[2]) /\ ~IsActive(node[1]) /\ ~IsActive(node[3])

TitlesShown == {m \in scene : m.k = "title"}
\* The title of stage s is on the scene from the beginning of the stage's
\* first statement to the completion of its last one.
TitleFramesStage(s) ==
    StageLabel(s) \in scene <=>
        (StageOf = s /\ ~(pc = TitleFadeIn(s) /\ phase = "idle"))

BriefCallSites == <<"L102", "L162", "L204", "L274">>

\* C5: the statements run one at a time in script order, and each brief() is
\* a barrier: its call is followed by its Write, its wait and its FadeOut
\* and by nothing else in between, its text is on the scene only from the
\* Write to the completion of the FadeOut, and it is off the scene once any
\* later statement has begun and at run completion.
C5_BriefIsBarrier ==
    /\ \A m \in scene :
          m.k = "info" =>
              /\ m = info
              /\ (pc = "L89" /\ phase = "running") \/ pc \in {"L90", "L91"}
    /\ \A n \in 1..4 : \A j \in 1..Len(log) :
          log[j].op = BriefCallSites[n] =>
              /\ Len(log) >= j + 1 => log[j + 1].op = "L89"
              /\ Len(log) >= j + 2 => log[j + 2].op = "L90"
              /\ Len(log) >= j + 3 => log[j + 3].op = "L91"
              /\ Len(log) > j + 3 => InfoText(n) \notin scene
    /\ pc = "done" => \A m \in scene : m.k # "info"
    /\ phase = "running" => Len(log) > 0 /\ log[Len(log)].op = pc

\* C5 witness: the highlight that follows the first brief() is running, and
\* the text of that brief() has been shown and removed.
C5_Witness ==
    /\ pc = "L136" /\ phase = "running" /\ it1 = 1
    /\ Begun("L89") /\ Begun("L91")
    /\ InfoText(1) \notin scene

\* C6: in each of the three stages, the first sub-step operation (the first
\* highlight in stages 1 and 2, the repositioning in stage 3) comes after a
\* complete brief() of that stage, which comes after the fade-in of the
\* stage's title.
C6_AnnotatePrecedesSubSteps ==
    \A s \in 1..3 : \A j \in 1..Len(log) :
        log[j].op = FirstSubStepOp(s) =>
            \E t \in 1..j : \E c \in 1..j :
                /\ t < c /\ c + 3 < j
                /\ log[t].op = TitleFadeIn(s)
                /\ log[c].op = BriefCall(s)
                /\ log[c + 1].op = "L89"
                /\ log[c + 2].op = "L90"
                /\ log[c + 3].op = "L91"

\* C6 witness: the repositioning of stage 3 has begun, after the first
\* highlights of stages 1 and 2.
C6_Witness ==
    /\ pc = "L207" /\ phase = "running"
    /\ Begun("L136") /\ Begun("L176") /\ Begun("L204")

IsHighlight1(e) == e.op = "L136"
IsHighlight2(e) == e.op = "L176"
Spotlights(sel) == [j \in 1..Len(sel) |-> sel[j].who]
IsPrefix(p, q) == Len(p) <= Len(q) /\ \A j \in 1..Len(p) : p[j] = q[j]
Peers(a) == Nodes \ {a}
ArrowsShown == {m \in scene : m.k = "arrow"}
TicksShown == {m \in scene : m.k = "tick"}

\* C7: stages 1 and 2 each have exactly 3 sub-steps, spotlighting P1, P2, P3
\* in this order; a sub-step of stage 1 shows exactly 2 connectors, from the
\* active entity to its two peers; a sub-step of stage 2 shows exactly 2
\* share connectors from the active entity and exactly 2 confirmation marks,
\* one at each peer.
C7_SubStepsAndBundles ==
    /\ IsPrefix(Spotlights(SelectSeq(log, IsHighlight1)), <<1, 2, 3>>)
    /\ IsPrefix(Spotlights(SelectSeq(log, IsHighlight2)), <<1, 2, 3>>)
    /\ pc \in Stage2Stmts \cup Stage3Stmts \cup {"done"} =>
          Spotlights(SelectSeq(log, IsHighlight1)) = <<1, 2, 3>>
    /\ pc \in Stage3Stmts \cup {"done"} =>
          Spotlights(SelectSeq(log, IsHighlight2)) = <<1, 2, 3>>
    /\ pc \in {"L147", "L148", "L149"} =>
          /\ ArrowsShown = {Arrow(active, q, "BROADCAST_COLOR") : q \in Peers(active)}
          /\ Cardinality(ArrowsShown) = 2
    /\ pc \in {"L188", "L190", "L191", "L192"} =>
          /\ ArrowsShown = {Arrow(active, q, "SHARE_COLOR") : q \in Peers(active)}
          /\ Cardinality(ArrowsShown) = 2
    /\ pc \in {"L191", "L192"} =>
          /\ {m.b : m \in TicksShown} = Peers(active)
          /\ Cardinality(TicksShown) = 2

\* C7 witness: P2's sub-step of stage 2 shows its two share connectors and
\* two confirmation marks, after the three sub-steps of stage 1.
C7_Witness ==
    /\ pc = "L191" /\ active = 2
    /\ Cardinality(ArrowsShown) = 2 /\ Cardinality(TicksShown) = 2
    /\ Spotlights(SelectSeq(log, IsHighlight1)) = <<1, 2, 3>>

DownArrowsShown == {m \in scene : m.k = "down_arrow"}

---------------------------------------------------------------------------
(* Properties of the geometry helpers *)

\* "the larger of the half-width and the half-height"
HalfExtent == Max(RectWidth \div 2, RectHeight \div 2)

Sub(p, q) == <<p[1] - q[1], p[2] - q[2]>>
Dot(u, v) == u[1] * v[1] + u[2] * v[2]
Cross(u, v) == u[1] * v[2] - u[2] * v[1]

\* p lies on the ray from c toward t, at distance r from c.
OnRayAt(p, c, t, r) ==
    /\ r >= 0
    /\ Dot(Sub(p, c), Sub(p, c)) = r * r
    /\ Cross(Sub(p, c), Sub(t, c)) = 0
    /\ Dot(Sub(p, c), Sub(t, c)) >= 0

C11_MirroredEndpoints ==
    (gCall = "arrow_both_ways" /\ gA # gB) =>
        /\ gOut.ab.start = gOut.ba.end
        /\ gOut.ab.end = gOut.ba.start

\* C11 witness: both connectors were built between entities on a diagonal,
\* and they are proper segments.
C11_Witness ==
    /\ gCall = "arrow_both_ways"
    /\ gA[1] # gB[1] /\ gA[2] # gB[2]
    /\ gOut.ab.start # gOut.ab.end
    /\ gOut.ab.start = gOut.ba.end

---------------------------------------------------------------------------
(* Properties of the NodeBox methods *)

\* The visual property values of an entity.
Visual(nb) == <<nb.fill, nb.opacity, nb.stroke, nb.text>>

\* C12: playing deactivate() and then activate() right after an activate()
\* leaves the fill colour, fill opacity, border colour and label colour that
\* the first activate() produced; and playing activate() on an entity that an
\* activate() has just made Active changes nothing.
C12_ActivateRoundTrip ==
    \A j \in 1..Len(entLog) :
        /\ ( /\ j + 2 <= Len(entLog)
             /\ entLog[j].op = "activate"
             /\ entLog[j + 1].op = "deactivate"
             /\ entLog[j + 2].op = "activate" ) =>
               Visual(entLog[j + 2].after) = Visual(entLog[j].after)
        /\ ( /\ j + 1 <= Len(entLog)
             /\ entLog[j].op = "activate"
             /\ entLog[j + 1].op = "activate" ) =>
               entLog[j + 1].after = entLog[j + 1].before

\* C12 witness: activate, deactivate, activate, activate were played, the
\* entity being Inactive in between.
C12_Witness ==
    /\ Len(entLog) = 4
    /\ entLog[1].op = "activate" /\ entLog[2].op = "deactivate"
    /\ entLog[3].op = "activate" /\ entLog[4].op = "activate"
    /\ IsInactive(entLog[2].after) /\ IsActive(ent)

\* C15: a call of activate(), deactivate() or edge_point() leaves the display
\* state and the position of the entity as they were: the entity is as
\* constructed until a unit is played, and afterwards as the last unit
\* played left it; each unit played started from what its predecessor left.
C15_CallsLeaveEntityAlone ==
    /\ entLog = <<>> => Visual(ent) = Visual(NodeBoxInit(ent.pos))
    /\ entLog # <<>> => ent = entLog[Len(entLog)].after
    /\ \A j \in 1..Len(entLog) :
          /\ j > 1 => entLog[j].before = entLog[j - 1].after
          /\ entLog[j].after.pos = entLog[j].before.pos
    /\ gCall = "edge_point" => ent.pos = gA

\* C15 witness: on an entity as constructed, edge_point() and activate()
\* have been called, nothing has been played, and the entity is Inactive.
C15_Witness ==
    /\ entLog = <<>>
    /\ gCall = "edge_point"
    /\ entUnit.op = "activate"
    /\ IsActive(entUnit.target)
    /\ IsInactive(ent)

---------------------------------------------------------------------------
(* Properties of broadcast_with_labels *)

\* C13: the bundle holds one connector and one inline label per peer, in the
\* order of the peer list: the k-th connector goes from the sender to the
\* k-th peer and the k-th label sits on it and carries index k; for two
\* peers that is exactly 2 connectors and 2 labels.
C13_BundleFollowsPeerOrder ==
    pc = "L123" =>
        /\ Len(arrows) = Len(others)
        /\ Len(labels) = Len(others)
        /\ \A k \in 1..Len(others) :
              /\ arrows[k].k = "arrow"
              /\ arrows[k].a = active /\ arrows[k].b = others[k]
              /\ labels[k].k = "g_c"
              /\ labels[k].a = active /\ labels[k].b = others[k]
              /\ labels[k].n = k
        /\ Len(others) = 2 => Len(arrows) = 2 /\ Len(labels) = 2

\* C13 witness: the bundle of P2 for the peers [P3, P1].
C13_Witness ==
    /\ pc = "L123"
    /\ active = 2 /\ others = <<3, 1>>
    /\ Len(arrows) = 2 /\ arrows[1].b = 3 /\ arrows[2].b = 1
    /\ labels[2].n = 2

---------------------------------------------------------------------------
(* Properties of the script *)

Participants(ts) ==
    UNION {{ts[i].active} \cup Range(ts[i].others) : i \in 1..Len(ts)}
HasUnknownParticipant == ~(Participants(turns.s1) \cup Participants(turns.s2) \subseteq Nodes)

---------------------------------------------------------------------------
(* Properties of the entities over the run *)

IsHighlight(e) == IsHighlight1(e) \/ IsHighlight2(e)
HighlightsBegun == SelectSeq(log, IsHighlight)
\* The highlights whose self.play has returned, in order.
HighlightsCommitted ==
    IF pc \in {"L136", "L176"} /\ phase = "running"
    THEN SubSeq(HighlightsBegun, 1, Len(HighlightsBegun) - 1)
    ELSE HighlightsBegun
LastSpotlit == HighlightsCommitted[Len(HighlightsCommitted)].who

\* C16: all three entities are Inactive until the first highlight of stage 1
\* is committed; from then on, in every state to the end of the run, exactly
\* one entity is Active, the one most recently spotlighted, and the others
\* are Inactive; P3 is the Active one all through stage 3 and when the run
\* is complete.
C16_OneActiveSinceFirstHighlight ==
    /\ HighlightsCommitted = <<>> => \A n \in Nodes : IsInactive(node[n])
    /\ HighlightsCommitted # <<>> =>
          /\ {n \in Nodes : IsActive(node[n])} = {LastSpotlit}
          /\ \A n \in Nodes \ {LastSpotlit} : IsInactive(node[n])
    /\ (StageOf = 3 \/ pc = "done") =>
          /\ IsActive(node[3])
          /\ \A n \in Nodes \ {3} : IsInactive(node[n])

\* C16 witness: the run is complete after six committed highlights, and P3 is
\* the only Active entity.
C16_Witness ==
    /\ pc = "done"
    /\ Len(HighlightsCommitted) = 6
    /\ LastSpotlit = 3
    /\ IsActive(node[3]) /\ IsInactive(node[1]) /\ IsInactive(node[2])

---------------------------------------------------------------------------
(* Properties of the scene over the run *)

AnnotationOverlay(m) == m.k = InfoText(0).k

\* C17: every object faded out was on the scene when its removal was
\* scheduled, and no object is shown twice; when the run is complete the scene
\* holds the three entities, the 3 connectors of stage 3 with their 3
\* contribution labels and the 2 result groups, and no transient of stage 1
\* or 2 and no annotation overlay.
C17_SceneBookkeeping ==
    /\ hist.absent = {}
    /\ hist.reshown = {}
    /\ pc = "done" =>
          /\ NodeMobs \subseteq scene
          /\ DownArrows \subseteq scene /\ Cardinality(DownArrows) = 3
          /\ ShareLabels \subseteq scene /\ Cardinality(ShareLabels) = 3
          /\ {PubGroup, SecretGroup} \subseteq scene /\ PubGroup # SecretGroup
          /\ Cardinality({m \in scene : m.k = "down_arrow"}) = 3
          /\ Cardinality({m \in scene : m.k = "s_n"}) = 3
          /\ \A m \in scene :
                ~Stage1Transient(m) /\ ~Stage2Transient(m) /\ ~AnnotationOverlay(m)

\* C17 witness: the run is complete, every transient and every overlay was
\* shown once and is gone.
C17_Witness ==
    /\ pc = "done"
    /\ Cardinality({m \in hist.shown : Stage1Transient(m)}) = 15
    /\ Cardinality({m \in hist.shown : Stage2Transient(m)}) = 18
    /\ Cardinality({m \in hist.shown : AnnotationOverlay(m)}) = 4
    /\ DownArrows \subseteq scene

---------------------------------------------------------------------------
(* Properties of update_coverage.py *)

\* The paths the totals leave out: those that contain "/.cargo/",
\* "target/debug/build" or "/tests/", or end with "/build.rs".
Has(str, part) ==
    \E i \in 1..Len(str) :
        /\ i + Len(part) - 1 <= Len(str)
        /\ \A j \in 1..Len(part) : str[i + j - 1] = part[j]
EndsIn(str, part) ==
    /\ Len(part) <= Len(str)
    /\ \A j \in 1..Len(part) : str[Len(str) - Len(part) + j] = part[j]
AbsDiff(x, y) == IF x >= y THEN x - y ELSE y - x
LeftOut(path) ==
    \/ Has(path, <<"/", ".", "c", "a", "r", "g", "o", "/">>)
    \/ Has(path, <<"t", "a", "r", "g", "e", "t", "/", "d", "e", "b", "u", "g", "/",
                   "b", "u", "i", "l", "d">>)
    \/ Has(path, <<"/", "t", "e", "s", "t", "s", "/">>)
    \/ EndsIn(path, <<"/", "b", "u", "i", "l", "d", ".", "r", "s">>)

\* C18: the traces of a file whose path is left out add nothing to either
\* counter; covered_lines never exceeds total_lines; the percentage reported
\* is within 0..100, and it is 0 when no line was counted.
C18_CoverageTotals ==
    /\ LeftOut(file_path) =>
          total_lines = base.total /\ covered_lines = base.covered
    /\ LeftOut(file_path) => upc # "U24"
    /\ 0 <= covered_lines /\ covered_lines <= total_lines
    /\ upc = "done" =>
          /\ percentage \in 0..100
          /\ total_lines = 0 => percentage = 0
          /\ 2 * AbsDiff(percentage * total_lines, 100 * covered_lines) <= total_lines

\* C18 witness: a report whose last file is left out, after a file with one
\* covered line among eight: 12.5 is reported as 12.
C18_Witness ==
    /\ upc = "done"
    /\ LeftOut(file_path)
    /\ nFiles = 3
    /\ total_lines = 8 /\ covered_lines = 1
    /\ percentage = 12

====
